---- MODULE Spec2Model ----
(***************************************************************************)
(* The post-scheduling and execution engine of the reel automation bot:    *)
(* ReelScheduler (src/src/scheduler.py) on top of an APScheduler job       *)
(* store, the standalone task execute_post_task, and the publish workflow  *)
(* InstagramAPI.post_reel (src/src/instagram_api.py).                      *)
(*                                                                         *)
(* Dictionaries are functions whose DOMAIN is the set of keys present.     *)
(* Python's None / a missing key is one of the No... values below.         *)
(***************************************************************************)
EXTENDS Integers, Sequences, FiniteSets, TLC

(***************************************************************************)
(* Bounds of the model.                                                    *)
(***************************************************************************)
NumPosts == 1
MaxNow == 1
MaxExecs == 1
MaxSlots == 2
MaxParallel == 2
MaxSchedulers == 2

(***************************************************************************)
(* Program constants.                                                      *)
(***************************************************************************)
max_retries == 12
max_instances == 3
misfire_grace_time == 300

(***************************************************************************)
(* Identifiers and values.                                                 *)
(***************************************************************************)
\* A post id is a uuid4 string; a recurring job id is "recurring_<i>".
PostId(n) == <<"uuid", n>>
RecurringId(i) == <<"recurring_", i>>
PostIds == {PostId(n) : n \in 1..NumPosts}
RecurringIds == {RecurringId(i) : i \in 0..(MaxSlots - 1)}
NoId == <<"None", 0>>

\* job.id.startswith("recurring_")
StartsWithRecurring(id) == id[1] = "recurring_"

\* process_uploaded_video names every upload uuid4 + extension: one file per
\* upload. Video(n) is the upload made for post n, Video(-k) one made for a
\* recurring schedule.
Video(n) == <<"video", n>>
PostVideos == {Video(n) : n \in 1..NumPosts}
RecurringVideos == {Video(-1), Video(-2)}
Videos == PostVideos \cup RecurringVideos
NoVideo == <<"", 0>>

Captions == {"hello", "bye"}
Datetimes == 0..MaxNow
NoMedia == "None"
MediaIds == {"m1"}
NoContainer == "None"
ContainerIds == {"c1", "c2"}

\* datetime.isoformat() / datetime.fromisoformat() of an aware datetime.
DatetimeIso(t) == <<"iso", t>>
DatetimeFromIso(s) == s[2]

\* A format that keeps the hour only.
TimeIsoHourOnly(t) == <<t.hour \div 10, t.hour % 10, 0, 0, 0, 0>>

\* time.isoformat() of a time with zero seconds is "HH:MM:00"; the digits.
TimeIso(t) == <<t.hour \div 10, t.hour % 10, t.minute \div 10, t.minute % 10, 0, 0>>
TimeFromIso(s) == [hour |-> s[1] * 10 + s[2], minute |-> s[3] * 10 + s[4]]

\* Error texts, as the sequence of their parts.
NoError == <<>>
ErrMissingVideo == <<"Task data is missing 'video_path'.">>
ErrNgrok == <<"Failed to create public URL with ngrok.">>
ErrContainer == <<"Container creation from URL failed.">>
ErrProcessing(status) == <<"Container processing failed with status: ", status, ".">>
ErrTimeout == <<"Video processing timed out.">>
ErrPublish == <<"Publish failed: ", "response.text">>

VARIABLES
    jobs,            \* the APScheduler job store: job id -> job
    posts,           \* self.scheduled_posts: post id -> post record
    postsFile,       \* posts.json on disk
    recurringConfig, \* recurring_post.json on disk, or NoConfig
    files,           \* the video files that exist
    paused,          \* the scheduler is in STATE_PAUSED
    now,             \* the clock
    execs,           \* the running executions of the worker pool
    port,            \* who holds TCP port 8000: 0 nobody, w an execution
    ret,             \* what the last facade call returned or raised
    schedulers       \* the BackgroundScheduler instances started and not shut down

vars == <<jobs, posts, postsFile, recurringConfig, files, paused, now, execs, port, ret,
         schedulers>>

NoConfig == [caption |-> "", times |-> <<>>, video_path |-> NoVideo, present |-> FALSE]

\* What the facade calls read and write, as one record.
Facade == [jobs |-> jobs, posts |-> posts, postsFile |-> postsFile,
           config |-> recurringConfig, files |-> files, ret |-> ret]

(***************************************************************************)
(* The job store.                                                          *)
(***************************************************************************)
DateTrigger(t) == [kind |-> "date", run_date |-> t, hour |-> 0, minute |-> 0]
CronTrigger(t) == [kind |-> "cron", run_date |-> 0, hour |-> t.hour, minute |-> t.minute]

\* trigger.get_next_fire_time(None, now), the first fire time of a new job: the
\* run_date of a date trigger, the next hour:minute of a cron trigger.
FirstRunTime(trigger) == trigger

\* add_job that keeps the job already stored under the id.
add_job_keep_existing(j, id, trigger, args) ==
    IF id \in DOMAIN j
    THEN j
    ELSE [k \in DOMAIN j \cup {id} |->
            IF k = id
            THEN [trigger |-> trigger, next_run_time |-> trigger, args |-> args]
            ELSE j[k]]

\* scheduler.add_job(..., replace_existing=True)
add_job(j, id, trigger, args) ==
    [k \in DOMAIN j \cup {id} |->
        IF k = id
        THEN [trigger |-> trigger, next_run_time |-> FirstRunTime(trigger), args |-> args]
        ELSE j[k]]

\* modify_job that leaves the trigger as it was.
modify_job_keeps_trigger(j, id, trigger) == j

\* scheduler.modify_job(job_id, trigger=...): the trigger only; next_run_time
\* is what reschedule_job would recompute, and modify_job does not.
modify_job(j, id, trigger) == [j EXCEPT ![id].trigger = trigger]

\* scheduler.remove_job(job_id)
remove_job(j, id) == [k \in DOMAIN j \ {id} |-> j[k]]

(***************************************************************************)
(* The ledger and the facade calls on one-shot posts. Each call is the     *)
(* function from the state it finds to the state it leaves.                *)
(***************************************************************************)
\* _save_posts that writes nothing.
save_posts_skipped(st) == st

\* _save_posts: the whole document is rewritten.
save_posts(st) == [st EXCEPT !.postsFile = st.posts]

\* _delete_video_file
delete_video_file(f, path) == f \ {path}

\* ReelScheduler.schedule_post; post_data carries "id" or not (hasId), and
\* without one post_id is a new uuid4.
schedule_post(st, id, hasId, video, caption, t) ==
    LET post_data == [id |-> IF hasId THEN id ELSE NoId, video_path |-> video,
                      caption |-> caption]
        scheduled_time == DatetimeFromIso(DatetimeIso(t))
        entry == [id |-> post_data.id, video_path |-> video, caption |-> caption,
                  scheduled_time |-> DatetimeIso(t), status |-> "scheduled",
                  error |-> NoError, media_id |-> NoMedia]
    IN  save_posts([st EXCEPT
            !.jobs = add_job(st.jobs, id, DateTrigger(scheduled_time), post_data),
            !.posts = [k \in DOMAIN st.posts \cup {id} |-> IF k = id THEN entry ELSE st.posts[k]],
            !.ret = "id"])

\* update_scheduled_post that also sets the status back to "scheduled".
update_resets_status(st, post_id, new_caption, new_datetime) ==
    IF post_id \notin DOMAIN st.jobs
    THEN [st EXCEPT !.ret = "False"]
    ELSE LET modified == [st EXCEPT !.jobs[post_id].trigger =
                            [kind |-> "date", run_date |-> new_datetime, hour |-> 0, minute |-> 0]]
         IN  IF post_id \in DOMAIN st.posts
             THEN [modified EXCEPT
                     !.posts[post_id].caption = new_caption,
                     !.posts[post_id].scheduled_time = DatetimeIso(new_datetime),
                     !.posts[post_id].status = "scheduled",
                     !.postsFile = [st.posts EXCEPT ![post_id].caption = new_caption,
                                       ![post_id].scheduled_time = DatetimeIso(new_datetime),
                                       ![post_id].status = "scheduled"],
                     !.ret = "True"]
             ELSE [modified EXCEPT !.ret = "False"]

\* update_scheduled_post that writes the ledger whether or not the job exists.
update_without_job_lookup(st, post_id, new_caption, new_datetime) ==
    IF post_id \in DOMAIN st.posts
    THEN [st EXCEPT
            !.jobs = IF post_id \in DOMAIN st.jobs
                     THEN [st.jobs EXCEPT ![post_id].trigger =
                              [kind |-> "date", run_date |-> new_datetime, hour |-> 0, minute |-> 0]]
                     ELSE st.jobs,
            !.posts[post_id].caption = new_caption,
            !.posts[post_id].scheduled_time = DatetimeIso(new_datetime),
            !.postsFile = [st.posts EXCEPT ![post_id].caption = new_caption,
                              ![post_id].scheduled_time = DatetimeIso(new_datetime)],
            !.ret = "True"]
    ELSE [st EXCEPT !.ret = "False"]

\* ReelScheduler.update_scheduled_post: modify_job raises JobLookupError for
\* an absent job, and the except clause returns False.
update_scheduled_post(st, post_id, new_caption, new_datetime) ==
    IF post_id \notin DOMAIN st.jobs
    THEN [st EXCEPT !.ret = "False"]
    ELSE LET modified == [st EXCEPT !.jobs = modify_job(st.jobs, post_id, DateTrigger(new_datetime))]
         IN  IF post_id \in DOMAIN st.posts
             THEN save_posts([modified EXCEPT
                     !.posts[post_id].caption = new_caption,
                     !.posts[post_id].scheduled_time = DatetimeIso(new_datetime),
                     !.ret = "True"])
             ELSE [modified EXCEPT !.ret = "False"]

\* _update_post_status that leaves the status alone.
update_post_status_skipped(st, post_id, status, error_message, media_id) == st

\* ReelScheduler._update_post_status
update_post_status(st, post_id, status, error_message, media_id) ==
    IF post_id \in DOMAIN st.posts
    THEN save_posts([st EXCEPT
            !.posts[post_id].status = status,
            !.posts[post_id].error = IF error_message # NoError THEN error_message ELSE @,
            !.posts[post_id].media_id = IF media_id # NoMedia THEN media_id ELSE @])
    ELSE st

\* delete_scheduled_post that leaves the job in the job store.
delete_without_remove_job(st, post_id) ==
    IF post_id \in DOMAIN st.posts
    THEN [st EXCEPT
            !.files = st.files \ {st.posts[post_id].video_path},
            !.posts = [k \in DOMAIN st.posts \ {post_id} |-> st.posts[k]],
            !.postsFile = [k \in DOMAIN st.posts \ {post_id} |-> st.posts[k]],
            !.ret = "True"]
    ELSE [st EXCEPT !.ret = "False"]

\* ReelScheduler.delete_scheduled_post: remove_job's JobLookupError is caught
\* and logged.
delete_scheduled_post(st, post_id) ==
    LET removed == [st EXCEPT !.jobs = IF post_id \in DOMAIN st.jobs
                                       THEN remove_job(st.jobs, post_id)
                                       ELSE st.jobs]
    IN  IF post_id \in DOMAIN st.posts
        THEN save_posts([removed EXCEPT
                !.files = delete_video_file(st.files, st.posts[post_id].video_path),
                !.posts = [k \in DOMAIN st.posts \ {post_id} |-> st.posts[k]],
                !.ret = "True"])
        ELSE [removed EXCEPT !.ret = "False"]

(***************************************************************************)
(* The recurring schedule.                                                 *)
(***************************************************************************)
\* ReelScheduler.get_recurring_schedule
get_recurring_schedule(st) == st.config

\* cancel_recurring_posts that removes only the first recurring job it finds.
cancel_removes_one_job(st) ==
    LET found == {id \in DOMAIN st.jobs : id[1] = "recurring_"}
        first == CHOOSE id \in found : \A other \in found : id[2] <= other[2]
    IN  [st EXCEPT
            !.files = IF st.config.present THEN st.files \ {st.config.video_path} ELSE st.files,
            !.jobs = IF found = {} THEN st.jobs
                     ELSE [k \in DOMAIN st.jobs \ {first} |-> st.jobs[k]],
            !.config = NoConfig,
            !.ret = "None"]

\* cancel_recurring_posts that leaves the jobs in the job store.
cancel_without_job_removal(st) ==
    [st EXCEPT
        !.files = IF st.config.present THEN st.files \ {st.config.video_path} ELSE st.files,
        !.config = NoConfig,
        !.ret = "None"]

\* ReelScheduler.cancel_recurring_posts: the video of the config is deleted,
\* every job of get_jobs() whose id starts with "recurring_" is removed, and
\* the config file is removed.
cancel_recurring_posts(st) ==
    LET recurring_config == get_recurring_schedule(st)
    IN  [st EXCEPT
            !.files = IF recurring_config.present
                      THEN delete_video_file(st.files, recurring_config.video_path)
                      ELSE st.files,
            !.jobs = [k \in {id \in DOMAIN st.jobs : ~StartsWithRecurring(id)} |-> st.jobs[k]],
            !.config = NoConfig,
            !.ret = "None"]

\* The loop of schedule_recurring_post: job recurring_i for the i-th time.
RECURSIVE AddRecurringJobs(_, _, _, _)
AddRecurringJobs(j, times, i, post_data) ==
    IF i > Len(times)
    THEN j
    ELSE AddRecurringJobs(add_job(j, RecurringId(i - 1), CronTrigger(times[i]), post_data),
                          times, i + 1, post_data)

\* ReelScheduler.schedule_recurring_post: the cancel comes first, the check
\* of video_path after it.
schedule_recurring_post(st, caption, times, video_path) ==
    LET cancelled == cancel_recurring_posts(st)
        post_data == [id |-> NoId, video_path |-> video_path, caption |-> caption]
    IN  IF video_path = NoVideo
        THEN [cancelled EXCEPT !.ret = "ValueError"]
        ELSE [cancelled EXCEPT
                !.jobs = AddRecurringJobs(cancelled.jobs, times, 1, post_data),
                !.config = [caption |-> caption,
                            times |-> [i \in 1..Len(times) |-> TimeIso(times[i])],
                            video_path |-> video_path, present |-> TRUE],
                !.ret = "None"]

\* ReelScheduler._load_posts: the ledger is what posts.json holds.
load_posts(st) == [st EXCEPT !.posts = st.postsFile]

\* A reconciliation that tears the schedule down and registers nothing.
reschedule_cancels_only(st) ==
    IF get_recurring_schedule(st).present THEN cancel_recurring_posts(st) ELSE st

\* ReelScheduler._reschedule_recurring_jobs_from_config
reschedule_recurring_jobs_from_config(st) ==
    LET config == get_recurring_schedule(st)
    IN  IF config.present
        THEN schedule_recurring_post(st, config.caption,
                 [i \in 1..Len(config.times) |-> TimeFromIso(config.times[i])],
                 config.video_path)
        ELSE st

\* ReelScheduler.__init__ of a new process over the files and the job store
\* database the last one left: the ledger is loaded, the scheduler started,
\* and the recurring schedule is registered again from its config.
initialize(st) ==
    [reschedule_recurring_jobs_from_config(load_posts(st)) EXCEPT !.ret = "init"]

Init ==
    /\ jobs = <<>>
    /\ posts = <<>>
    /\ postsFile = <<>>
    /\ recurringConfig = NoConfig
    /\ files = {}
    /\ paused = FALSE
    /\ now = 0
    /\ execs = <<>>
    /\ port = 0
    /\ ret = "None"
    /\ schedulers = 1

\* A facade call on the request thread leaves the state st.
Call(st) ==
    /\ jobs' = st.jobs
    /\ posts' = st.posts
    /\ postsFile' = st.postsFile
    /\ recurringConfig' = st.config
    /\ files' = st.files
    /\ ret' = st.ret
    /\ UNCHANGED <<schedulers, paused, now, execs, port>>

\* VideoProcessor.process_uploaded_video writes the upload to a new path.
UploadVideo(v) ==
    /\ v \notin files
    /\ files' = files \cup {v}
    /\ UNCHANGED <<schedulers, jobs, posts, postsFile, recurringConfig, paused, now, execs, port, ret>>

\* str(uuid.uuid4()) is an id nothing else carries.
FreshId(id) ==
    /\ id \notin DOMAIN jobs
    /\ id \notin DOMAIN posts
    /\ \A w \in DOMAIN execs : execs[w].job_id # id

SchedulePost(id, hasId, video, caption, t) ==
    /\ (~hasId) => FreshId(id)
    /\ Call(schedule_post(Facade, id, hasId, video, caption, t))

UpdatePost(id, caption, t) == Call(update_scheduled_post(Facade, id, caption, t))

DeletePost(id) == Call(delete_scheduled_post(Facade, id))

CancelRecurring == Call(cancel_recurring_posts(Facade))

ScheduleRecurring(caption, times, video) ==
    Call(schedule_recurring_post(Facade, caption, times, video))

\* The process stops and a new one starts: the executions and the server of
\* the old process end with it, and the new scheduler starts running.
Restart ==
    /\ LET st == initialize(Facade)
       IN  /\ jobs' = st.jobs
           /\ posts' = st.posts
           /\ postsFile' = st.postsFile
           /\ recurringConfig' = st.config
           /\ files' = st.files
           /\ ret' = st.ret
    /\ execs' = <<>>
    /\ port' = 0
    /\ paused' = FALSE
    /\ now' = now
    /\ schedulers' = 1

\* pause_scheduler that flips the state of the scheduler.
pause_flips ==
    /\ paused' = ~paused
    /\ ret' = "None"
    /\ UNCHANGED <<schedulers, jobs, posts, postsFile, recurringConfig, files, now, execs, port>>

\* ReelScheduler.pause_scheduler / resume_scheduler: scheduler.running is true
\* of a paused scheduler too, so the call always goes through.
pause_scheduler ==
    /\ paused' = TRUE
    /\ ret' = "None"
    /\ UNCHANGED <<schedulers, jobs, posts, postsFile, recurringConfig, files, now, execs, port>>

resume_scheduler ==
    /\ paused' = FALSE
    /\ ret' = "None"
    /\ UNCHANGED <<schedulers, jobs, posts, postsFile, recurringConfig, files, now, execs, port>>

(***************************************************************************)
(* Job execution: the scheduler thread hands a due job to the worker pool, *)
(* the worker runs execute_post_task, and the outcome reaches the          *)
(* listeners as an event.                                                  *)
(***************************************************************************)
Ok(media_id) == [success |-> TRUE, media_id |-> media_id, error |-> NoError]
Failed(error) == [success |-> FALSE, media_id |-> NoMedia, error |-> error]
NoResult == [success |-> FALSE, media_id |-> NoMedia, error |-> NoError]

Instances(id) == Cardinality({w \in DOMAIN execs : execs[w].job_id = id})
FreeSlots == (1..MaxExecs) \ DOMAIN execs

\* A date job is due from its next_run_time on; the time of day of a cron job
\* comes round every day, at a moment the clock of the model does not name.
Due(job) == job.next_run_time.kind = "cron" \/ job.next_run_time.run_date <= now
\* An executor that runs a job however late it is.
MissedNever(job) == FALSE

Missed(job) ==
    /\ job.next_run_time.kind = "date"
    /\ now - job.next_run_time.run_date > misfire_grace_time

\* A job store that keeps a date job after its run.
JobsAfterRunKeeps(j, id) == j

\* trigger.get_next_fire_time(previous_fire_time, now) after a run: a date
\* trigger has none, a cron trigger the same time next day.
JobsAfterRun(j, id) == IF j[id].trigger.kind = "date" THEN remove_job(j, id) ELSE j

\* _process_jobs that does not look at the state of the scheduler.
FireWhilePaused(id) ==
    /\ id \in DOMAIN jobs
    /\ Due(jobs[id])
    /\ FreeSlots # {}
    /\ jobs' = JobsAfterRun(jobs, id)
    /\ IF Missed(jobs[id]) \/ Instances(id) >= max_instances
       THEN execs' = execs
       ELSE LET w == CHOOSE x \in FreeSlots : \A y \in FreeSlots : x <= y
            IN  execs' = [k \in DOMAIN execs \cup {w} |->
                            IF k = w
                            THEN [job_id |-> id, args |-> jobs[id].args, pc |-> "task",
                                  polls |-> 0, last_status |-> "", publish_calls |-> 0,
                                  create_calls |-> 0, container_id |-> NoContainer,
                                  polled_id |-> NoContainer, creation_id |-> NoContainer,
                                  result |-> NoResult]
                            ELSE execs[k]]
    /\ UNCHANGED <<schedulers, posts, postsFile, recurringConfig, files, paused, now, port, ret>>

\* BaseScheduler._process_jobs for one due job, the worker pool having the
\* threads `pool`.
FireOn(id, pool) ==
    /\ ~paused
    /\ id \in DOMAIN jobs
    /\ Due(jobs[id])
    /\ pool \ DOMAIN execs # {}
    /\ jobs' = JobsAfterRun(jobs, id)
    /\ IF Missed(jobs[id]) \/ Instances(id) >= max_instances
       THEN execs' = execs
       ELSE LET w == CHOOSE x \in pool \ DOMAIN execs : \A y \in pool \ DOMAIN execs : x <= y
            IN  execs' = [k \in DOMAIN execs \cup {w} |->
                            IF k = w
                            THEN [job_id |-> id, args |-> jobs[id].args, pc |-> "task",
                                  polls |-> 0, last_status |-> "", publish_calls |-> 0,
                                  create_calls |-> 0, container_id |-> NoContainer,
                                  polled_id |-> NoContainer, creation_id |-> NoContainer,
                                  result |-> NoResult]
                            ELSE execs[k]]
    /\ UNCHANGED <<schedulers, posts, postsFile, recurringConfig, files, paused, now, port, ret>>

\* The worker pool of the life-cycle specifications.
Fire(id) == FireOn(id, 1..MaxExecs)

\* execute_post_task's post_id: post_data.get("id", "recurring_<timestamp>")
TaskIsRecurring(args) == args.id = NoId \/ StartsWithRecurring(args.id)

\* The finally clause of post_reel: the server and the tunnel are shut down.
Teardown(w) == IF port = w THEN 0 ELSE port

\* The execution ends with `result`: execute_post_task raises or returns, and
\* the event waits for the listeners.
Finish(w, result) == [execs EXCEPT ![w].pc = "event", ![w].result = result]

\* execute_post_task up to the exposure of the video by post_reel
\* (_start_server_and_ngrok). tunnel_ok: ngrok.connect succeeds.
TaskStart(w, tunnel_ok) ==
    /\ w \in DOMAIN execs
    /\ execs[w].pc = "task"
    /\ IF execs[w].args.video_path = NoVideo
       THEN /\ execs' = Finish(w, Failed(ErrMissingVideo))
            /\ port' = port
       ELSE IF port # 0
       THEN \* TCPServer cannot bind port 8000
            /\ execs' = Finish(w, Failed(ErrNgrok))
            /\ port' = port
       ELSE IF ~tunnel_ok
       THEN \* the server thread started before ngrok.connect raised keeps the port
            /\ execs' = Finish(w, Failed(ErrNgrok))
            /\ port' = -1
       ELSE /\ execs' = [execs EXCEPT ![w].pc = "create"]
            /\ port' = w
    /\ UNCHANGED <<schedulers, jobs, posts, postsFile, recurringConfig, files, paused, now, ret>>

\* A workflow that asks for the container again when the request is rejected.
ReelCreateRetries(w, created) ==
    /\ w \in DOMAIN execs
    /\ execs[w].pc = "create"
    /\ execs[w].create_calls < 2
    /\ IF created # NoContainer
       THEN execs' = [execs EXCEPT ![w].pc = "poll", ![w].container_id = created,
                                   ![w].create_calls = @ + 1]
       ELSE execs' = [execs EXCEPT ![w].create_calls = @ + 1]
    /\ UNCHANGED <<schedulers, jobs, posts, postsFile, recurringConfig, files, paused, now, port, ret>>

\* A workflow that publishes the container as soon as it is created.
ReelCreateThenPublish(w, created) ==
    /\ w \in DOMAIN execs
    /\ execs[w].pc = "create"
    /\ IF created # NoContainer
       THEN /\ execs' = [execs EXCEPT ![w].pc = "publish", ![w].container_id = created,
                                      ![w].create_calls = @ + 1]
            /\ port' = port
       ELSE /\ execs' = [Finish(w, Failed(ErrContainer)) EXCEPT ![w].create_calls = @ + 1]
            /\ port' = Teardown(w)
    /\ UNCHANGED <<schedulers, jobs, posts, postsFile, recurringConfig, files, paused, now, ret>>

\* post_reel: _create_media_container_from_url, which returns the id of the
\* container, or None when the remote service rejects the request.
ReelCreate(w, created) ==
    /\ w \in DOMAIN execs
    /\ execs[w].pc = "create"
    /\ IF created # NoContainer
       THEN /\ execs' = [execs EXCEPT ![w].pc = "poll", ![w].container_id = created,
                                      ![w].create_calls = @ + 1]
            /\ port' = port
       ELSE /\ execs' = [Finish(w, Failed(ErrContainer)) EXCEPT ![w].create_calls = @ + 1]
            /\ port' = Teardown(w)
    /\ UNCHANGED <<schedulers, jobs, posts, postsFile, recurringConfig, files, paused, now, ret>>

\* One more call of check_container_status, which answered status_code.
Polled(w, status_code, e) ==
    [e EXCEPT ![w].polls = @ + 1, ![w].last_status = status_code,
              ![w].polled_id = e[w].container_id]

\* A polling loop that takes ERROR alone for a rejection.
ReelPollIgnoresExpired(w, status_code) ==
    /\ w \in DOMAIN execs
    /\ execs[w].pc = "poll"
    /\ execs[w].polls < max_retries
    /\ IF status_code = "FINISHED"
       THEN /\ execs' = Polled(w, status_code, [execs EXCEPT ![w].pc = "publish"])
            /\ port' = port
       ELSE IF status_code = "ERROR"
       THEN /\ execs' = Polled(w, status_code, Finish(w, Failed(ErrProcessing(status_code))))
            /\ port' = Teardown(w)
       ELSE IF execs[w].polls + 1 = max_retries
       THEN /\ execs' = Polled(w, status_code, Finish(w, Failed(ErrTimeout)))
            /\ port' = Teardown(w)
       ELSE /\ execs' = Polled(w, status_code, execs)
            /\ port' = port
    /\ UNCHANGED <<schedulers, jobs, posts, postsFile, recurringConfig, files, paused, now, ret>>

\* A polling loop that goes on to publish when the attempts are used up.
ReelPollPublishesAfterLoop(w, status_code) ==
    /\ w \in DOMAIN execs
    /\ execs[w].pc = "poll"
    /\ execs[w].polls < max_retries
    /\ IF status_code = "FINISHED" \/ (status_code \notin {"ERROR", "EXPIRED"}
                                        /\ execs[w].polls + 1 = max_retries)
       THEN /\ execs' = Polled(w, status_code, [execs EXCEPT ![w].pc = "publish"])
            /\ port' = port
       ELSE IF status_code \in {"ERROR", "EXPIRED"}
       THEN /\ execs' = Polled(w, status_code, Finish(w, Failed(ErrProcessing(status_code))))
            /\ port' = Teardown(w)
       ELSE /\ execs' = Polled(w, status_code, execs)
            /\ port' = port
    /\ UNCHANGED <<schedulers, jobs, posts, postsFile, recurringConfig, files, paused, now, ret>>

\* A polling loop of one turn more than max_retries.
ReelPollOneMore(w, status_code) ==
    /\ w \in DOMAIN execs
    /\ execs[w].pc = "poll"
    /\ execs[w].polls < max_retries + 1
    /\ IF status_code = "FINISHED"
       THEN /\ execs' = Polled(w, status_code, [execs EXCEPT ![w].pc = "publish"])
            /\ port' = port
       ELSE IF status_code \in {"ERROR", "EXPIRED"}
       THEN /\ execs' = Polled(w, status_code, Finish(w, Failed(ErrProcessing(status_code))))
            /\ port' = Teardown(w)
       ELSE IF execs[w].polls + 1 = max_retries + 1
       THEN /\ execs' = Polled(w, status_code, Finish(w, Failed(ErrTimeout)))
            /\ port' = Teardown(w)
       ELSE /\ execs' = Polled(w, status_code, execs)
            /\ port' = port
    /\ UNCHANGED <<schedulers, jobs, posts, postsFile, recurringConfig, files, paused, now, ret>>

\* post_reel: one turn of the polling loop, check_container_status answering
\* status_code.
ReelPoll(w, status_code) ==
    /\ w \in DOMAIN execs
    /\ execs[w].pc = "poll"
    /\ execs[w].polls < max_retries
    /\ IF status_code = "FINISHED"
       THEN /\ execs' = Polled(w, status_code, [execs EXCEPT ![w].pc = "publish"])
            /\ port' = port
       ELSE IF status_code \in {"ERROR", "EXPIRED"}
       THEN /\ execs' = Polled(w, status_code, Finish(w, Failed(ErrProcessing(status_code))))
            /\ port' = Teardown(w)
       ELSE IF execs[w].polls + 1 = max_retries
       THEN \* the loop ends after the last sleep
            /\ execs' = Polled(w, status_code, Finish(w, Failed(ErrTimeout)))
            /\ port' = Teardown(w)
       ELSE /\ execs' = Polled(w, status_code, execs)
            /\ port' = port
    /\ UNCHANGED <<schedulers, jobs, posts, postsFile, recurringConfig, files, paused, now, ret>>

\* An execution that deletes the video whatever publish_media answered.
ReelPublishThenDelete(w, published, media_id) ==
    /\ w \in DOMAIN execs
    /\ execs[w].pc = "publish"
    /\ port' = Teardown(w)
    /\ execs' = [Finish(w, IF published THEN Ok(media_id) ELSE Failed(ErrPublish))
                    EXCEPT ![w].publish_calls = @ + 1,
                           ![w].creation_id = execs[w].container_id]
    /\ files' = files \ {execs[w].args.video_path}
    /\ UNCHANGED <<schedulers, jobs, posts, postsFile, recurringConfig, paused, now, ret>>

\* post_reel: publish_media, then the rest of execute_post_task: the video of
\* a post that is not recurring is deleted when the publish succeeded.
ReelPublish(w, published, media_id) ==
    /\ w \in DOMAIN execs
    /\ execs[w].pc = "publish"
    /\ port' = Teardown(w)
    /\ IF published
       THEN /\ execs' = [Finish(w, Ok(media_id)) EXCEPT ![w].publish_calls = @ + 1,
                                ![w].creation_id = execs[w].container_id]
            /\ files' = IF TaskIsRecurring(execs[w].args)
                        THEN files
                        ELSE delete_video_file(files, execs[w].args.video_path)
       ELSE /\ execs' = [Finish(w, Failed(ErrPublish)) EXCEPT ![w].publish_calls = @ + 1,
                                ![w].creation_id = execs[w].container_id]
            /\ files' = files
    /\ UNCHANGED <<schedulers, jobs, posts, postsFile, recurringConfig, paused, now, ret>>

\* _job_executed_listener
job_executed_listener(st, job_id, retval) ==
    IF ~StartsWithRecurring(job_id)
    THEN update_post_status(st, job_id, "completed", NoError, retval)
    ELSE st

\* _job_error_listener
job_error_listener(st, job_id, exception) ==
    IF ~StartsWithRecurring(job_id)
    THEN update_post_status(st, job_id, "failed", exception, NoMedia)
    ELSE st

\* The event of an ended execution, dispatched to the listener registered for it.
Dispatch(st, e) ==
    IF e.result.success
    THEN job_executed_listener(st, e.job_id, e.result.media_id)
    ELSE job_error_listener(st, e.job_id, e.result.error)

\* The worker dispatches EVENT_JOB_EXECUTED or EVENT_JOB_ERROR.
Listener(w) ==
    /\ w \in DOMAIN execs
    /\ execs[w].pc = "event"
    /\ LET st == Dispatch(Facade, execs[w])
       IN  /\ posts' = st.posts
           /\ postsFile' = st.postsFile
    /\ execs' = [k \in DOMAIN execs \ {w} |-> execs[k]]
    /\ UNCHANGED <<schedulers, jobs, recurringConfig, files, paused, now, port, ret>>

(***************************************************************************)
(* The listener statement by statement: it runs on the worker thread with  *)
(* no lock, beside the request thread and the listeners of other workers.  *)
(***************************************************************************)
\* posts.json while `w` has it open for writing and has not finished the dump.
OpenBy(w) == [k \in {<<"open", w>>} |-> "truncated"]
\* posts.json after two writers wrote into it at once.
CorruptFile == [k \in {<<"corrupt", 0>>} |-> "truncated"]

\* The execution has ended.
Leave(w) == [k \in DOMAIN execs \ {w} |-> execs[k]]

\* The listener is called with the event; _update_post_status tests
\* `post_id in self.scheduled_posts`.
ListenerEnter(w) ==
    /\ w \in DOMAIN execs
    /\ execs[w].pc = "event"
    /\ IF StartsWithRecurring(execs[w].job_id) \/ execs[w].job_id \notin DOMAIN posts
       THEN execs' = Leave(w)
       ELSE execs' = [execs EXCEPT ![w].pc = "l_write"]
    /\ UNCHANGED <<schedulers, jobs, posts, postsFile, recurringConfig, files, paused, now, port, ret>>

\* _update_post_status: self.scheduled_posts[post_id][...] = ...; the lookup
\* raises KeyError when the entry has been deleted since the test.
ListenerWrite(w) ==
    /\ w \in DOMAIN execs
    /\ execs[w].pc = "l_write"
    /\ IF execs[w].job_id \in DOMAIN posts
       THEN /\ posts' = [posts EXCEPT
                   ![execs[w].job_id].status =
                       IF execs[w].result.success THEN "completed" ELSE "failed",
                   ![execs[w].job_id].error =
                       IF execs[w].result.error # NoError THEN execs[w].result.error ELSE @,
                   ![execs[w].job_id].media_id =
                       IF execs[w].result.media_id # NoMedia THEN execs[w].result.media_id ELSE @]
            /\ execs' = [execs EXCEPT ![w].pc = "l_save"]
       ELSE /\ posts' = posts
            /\ execs' = [execs EXCEPT ![w].pc = "l_raised"]
    /\ UNCHANGED <<schedulers, jobs, postsFile, recurringConfig, files, paused, now, port, ret>>

\* _save_posts: open(self.posts_file, 'w') truncates the file.
ListenerSaveBegin(w) ==
    /\ w \in DOMAIN execs
    /\ execs[w].pc = "l_save"
    /\ postsFile' = OpenBy(w)
    /\ execs' = [execs EXCEPT ![w].pc = "l_dump"]
    /\ UNCHANGED <<schedulers, jobs, posts, recurringConfig, files, paused, now, port, ret>>

\* _save_posts: json.dump and close. When another writer has opened or
\* written the file since, the two wrote into one file: the document comes
\* out whole (intact) or not.
ListenerSaveEnd(w, intact) ==
    /\ w \in DOMAIN execs
    /\ execs[w].pc = "l_dump"
    /\ postsFile' = IF postsFile = OpenBy(w) \/ intact THEN posts ELSE CorruptFile
    /\ execs' = Leave(w)
    /\ UNCHANGED <<schedulers, jobs, posts, recurringConfig, files, paused, now, port, ret>>

\* The KeyError leaves the listener; the dispatcher of the scheduler logs it.
ListenerRaised(w) ==
    /\ w \in DOMAIN execs
    /\ execs[w].pc = "l_raised"
    /\ execs' = Leave(w)
    /\ UNCHANGED <<schedulers, jobs, posts, postsFile, recurringConfig, files, paused, now, port, ret>>

Tick ==
    /\ now < MaxNow
    /\ now' = now + 1
    /\ UNCHANGED <<schedulers, jobs, posts, postsFile, recurringConfig, files, paused, execs, port, ret>>

\* More than the grace time passes at once.
Sleep ==
    /\ now <= MaxNow
    /\ now' = now + misfire_grace_time + 1
    /\ UNCHANGED <<schedulers, jobs, posts, postsFile, recurringConfig, files, paused, execs, port, ret>>

(***************************************************************************)
(* Specifications.                                                         *)
(***************************************************************************)
Workers == 1..MaxExecs
TimesOfDay == {[hour |-> 9, minute |-> 0], [hour |-> 14, minute |-> 30]}
StatusCodes == {"FINISHED", "ERROR", "EXPIRED", "IN_PROGRESS", "API_ERROR", "EXCEPTION"}

\* The worker threads: an execution goes on without the scheduler thread.
\* The remote service answers within `remote`.
Worker(w, remote) ==
    \/ \E tunnel_ok \in remote.tunnel : TaskStart(w, tunnel_ok)
    \/ \E created \in remote.created : ReelCreate(w, created)
    \/ \E s \in remote.codes : ReelPoll(w, s)
    \/ \E published \in remote.published, m \in remote.medias : ReelPublish(w, published, m)
    \/ Listener(w)

\* A remote service that answers every poll with a final status.
PromptRemote == [tunnel |-> {TRUE}, created |-> {"c1"}, codes |-> {"FINISHED", "EXPIRED"},
                 published |-> {TRUE}, medias |-> MediaIds]
\* The remote side that finishes at the first poll.
QuickRemote ==
    [tunnel |-> {TRUE}, created |-> {"c1"}, codes |-> {"FINISHED"},
     published |-> {TRUE}, medias |-> MediaIds]

\* Every answer the remote service and ngrok can give.
AnyRemote == [tunnel |-> BOOLEAN, created |-> ContainerIds \cup {NoContainer},
              codes |-> StatusCodes,
              published |-> BOOLEAN, medias |-> MediaIds \cup {NoMedia}]

\* The life of one-shot posts: every facade call on posts.
Next ==
    \/ \E n \in 1..NumPosts : UploadVideo(Video(n))
    \/ \E n \in 1..NumPosts, hasId \in BOOLEAN, c \in Captions, t \in Datetimes :
          SchedulePost(PostId(n), hasId, Video(n), c, t)
    \/ \E id \in PostIds, c \in Captions, t \in Datetimes : UpdatePost(id, c, t)
    \/ \E id \in PostIds : DeletePost(id)
    \/ pause_scheduler
    \/ resume_scheduler
    \/ CancelRecurring
    \/ ScheduleRecurring("hello", <<[hour |-> 9, minute |-> 0]>>, Video(-1))
    \/ \E id \in PostIds \cup RecurringIds : Fire(id)
    \/ \E w \in Workers : Worker(w, PromptRemote)
    \/ Tick

Spec == Init /\ [][Next]_vars

\* The worker that holds an event delivers it: run_job dispatches the events
\* of an ended execution before the worker takes anything else.
SpecLive == Spec /\ \A w \in Workers : WF_vars(Listener(w))

\* The lists of at most MaxSlots times of the day.
TimeLists == UNION {[1..n -> TimesOfDay] : n \in 0..MaxSlots}

\* The recurring schedule: every input of schedule_recurring_post, with one
\* one-shot post beside it.
NextRecurring ==
    \/ \E v \in RecurringVideos : UploadVideo(v)
    \/ \E c \in Captions, times \in TimeLists, v \in RecurringVideos \cup {NoVideo} :
          ScheduleRecurring(c, times, v)
    \/ CancelRecurring
    \/ SchedulePost(PostId(1), TRUE, Video(1), "hello", 0)
    \/ \E id \in RecurringIds : Fire(id)
    \/ \E w \in Workers : Worker(w, QuickRemote)

SpecRecurring == Init /\ [][NextRecurring]_vars

\* The recurring schedule and a one-shot post across restarts of the process.
NextRestart ==
    \/ NextRecurring
    \/ UpdatePost(PostId(1), "bye", MaxNow)
    \/ Restart

SpecRestart == Init /\ [][NextRestart]_vars

\* Pause and resume while a one-shot job and a daily job come due, the
\* clock running past the grace time.
NextPause ==
    \/ UploadVideo(Video(1))
    \/ \E t \in Datetimes : SchedulePost(PostId(1), TRUE, Video(1), "hello", t)
    \/ ScheduleRecurring("hello", <<[hour |-> 9, minute |-> 0]>>, Video(-1))
    \/ pause_scheduler
    \/ resume_scheduler
    \/ \E id \in PostIds \cup RecurringIds : Fire(id)
    \/ \E w \in Workers : Worker(w, QuickRemote)
    \/ Tick
    \/ Sleep

SpecPause == Init /\ [][NextPause]_vars

\* The threads: MaxParallel posts and as many worker threads, the listener
\* of each running statement by statement beside the request thread.
Threads == 1..MaxParallel
ParallelIds == {PostId(n) : n \in 1..MaxParallel}

WorkerThread(w) ==
    \/ TaskStart(w, TRUE)
    \/ ReelCreate(w, "c1")
    \/ \E s \in {"FINISHED", "EXPIRED"} : ReelPoll(w, s)
    \/ \E m \in MediaIds : ReelPublish(w, TRUE, m)
    \/ ListenerEnter(w)
    \/ ListenerWrite(w)
    \/ ListenerSaveBegin(w)
    \/ \E intact \in BOOLEAN : ListenerSaveEnd(w, intact)
    \/ ListenerRaised(w)

NextThreads ==
    \/ \E n \in 1..MaxParallel : SchedulePost(PostId(n), TRUE, Video(n), "hello", 0)
    \/ \E id \in ParallelIds : DeletePost(id)
    \/ \E id \in ParallelIds : FireOn(id, Threads)
    \/ \E w \in Threads : WorkerThread(w)

SpecThreads == Init /\ [][NextThreads]_vars

\* The publish workflow of one post, poll by poll, against every answer of
\* the remote service.
NextReel ==
    \/ UploadVideo(Video(1))
    \/ \E v \in {Video(1), NoVideo} : SchedulePost(PostId(1), TRUE, v, "hello", 0)
    \/ DeletePost(PostId(1))
    \/ Fire(PostId(1))
    \/ \E w \in Workers : Worker(w, AnyRemote)

SpecReel == Init /\ [][NextReel]_vars

(***************************************************************************)
(* One-shot posts.                                                         *)
(***************************************************************************)
Terminal(p, id) == id \in DOMAIN p /\ p[id].status \in {"completed", "failed"}
InFlight(id) == \E w \in DOMAIN execs : execs[w].job_id = id

\* C1: after schedule_post(post) has returned id, the job store holds the job
\* id, a one-shot trigger at the post's scheduled_time that fires then, and
\* the ledger holds the entry id with status "scheduled", whatever was stored
\* under that id before the call.
C1_SchedulePostRegisters ==
    \A n \in 1..NumPosts, hasId \in BOOLEAN, c \in Captions, t \in Datetimes :
        LET id == PostId(n)
            st == schedule_post(Facade, id, hasId, Video(n), c, t)
        IN  (hasId \/ FreshId(id)) =>
                /\ st.ret = "id"
                /\ id \in DOMAIN st.jobs
                /\ st.jobs[id].trigger = DateTrigger(t)
                /\ st.jobs[id].next_run_time = DateTrigger(t)
                /\ st.jobs[id].args.caption = c
                /\ id \in DOMAIN st.posts
                /\ st.posts[id].status = "scheduled"
                /\ st.posts[id].scheduled_time = DatetimeIso(t)
                /\ st.posts[id].caption = c

\* schedule_post has returned for an id whose earlier job is still executing.
C1_Witness ==
    /\ ret = "id"
    /\ PostId(1) \in DOMAIN jobs
    /\ PostId(1) \in DOMAIN posts
    /\ posts[PostId(1)].status = "scheduled"
    /\ InFlight(PostId(1))

\* C2: delete_post(id) of an id in the ledger returns true and leaves id in
\* neither the job store nor the ledger; the same call again returns false;
\* and delete_post returns false only for an id that is not in the ledger.
C2_DeletePost ==
    \A id \in PostIds :
        LET st == delete_scheduled_post(Facade, id)
            again == delete_scheduled_post(st, id)
        IN  /\ st.ret \in {"True", "False"}
            /\ (st.ret = "False") <=> (id \notin DOMAIN posts)
            /\ id \in DOMAIN posts =>
                    /\ st.ret = "True"
                    /\ id \notin DOMAIN st.jobs
                    /\ id \notin DOMAIN st.posts
                    /\ id \notin DOMAIN st.postsFile
                    /\ again.ret = "False"
                    /\ again.jobs = st.jobs /\ again.posts = st.posts

\* delete_post has returned true and the ledger is empty.
C2_Witness ==
    /\ ret = "True"
    /\ posts = <<>>
    /\ DOMAIN jobs \cap PostIds = {}
    /\ ~paused

\* C3: update_post on a post whose job has fired (the id is in the ledger and
\* no longer in the job store) returns false and leaves the ledger, in memory
\* and on disk, as it was.
C3_UpdateAfterFire ==
    \A id \in PostIds, c \in Captions, t \in Datetimes :
        (id \in DOMAIN posts /\ id \notin DOMAIN jobs) =>
            LET st == update_scheduled_post(Facade, id, c, t)
            IN  /\ st.ret = "False"
                /\ st.posts = posts
                /\ st.postsFile = postsFile
                /\ st.jobs = jobs

\* update_post has returned false on a post the listener has completed.
C3_Witness ==
    /\ ret = "False"
    /\ Terminal(posts, PostId(1))
    /\ PostId(1) \notin DOMAIN jobs

\* C7: the event of a one-shot post's successful execution, carrying a result
\* id, leads to the ledger entry being "completed" with that result id (as
\* long as the entry is there to be written).
C7_SuccessCompletes ==
    \A w \in Workers, id \in PostIds, m \in MediaIds :
        (/\ w \in DOMAIN execs
         /\ execs[w].pc = "event"
         /\ execs[w].job_id = id
         /\ execs[w].result = Ok(m)
         /\ id \in DOMAIN posts
         /\ posts[id].status = "scheduled")
        ~> (\/ id \notin DOMAIN posts
            \/ (posts[id].status = "completed" /\ posts[id].media_id = m))

\* The listener has completed a post and recorded the result id.
C7_Witness ==
    /\ PostId(1) \in DOMAIN posts
    /\ posts[PostId(1)].status = "completed"
    /\ posts[PostId(1)].media_id \in MediaIds
    /\ execs = <<>>

\* C10 as claimed: a completed or failed entry keeps its status in every
\* step, unless delete_post removes it.
C10_TerminalIsFinal ==
    [][\A id \in PostIds :
          Terminal(posts, id) =>
              \/ (id \in DOMAIN posts' /\ posts'[id].status = posts[id].status)
              \/ (DeletePost(id) /\ id \notin DOMAIN posts')]_vars

\* C10, amended: an entry's status leaves "scheduled" only for "completed" or
\* "failed", written by a listener of its job; a completed or failed entry is
\* removed only by delete_post, and its status changes only when schedule_post
\* is called again with its id (back to "scheduled") or when the listener of
\* another execution of that id writes its outcome.
C10_StatusMachine ==
    [][\A id \in PostIds :
          /\ (id \in DOMAIN posts /\ id \notin DOMAIN posts') => DeletePost(id)
          /\ (id \in DOMAIN posts /\ id \in DOMAIN posts'
                /\ posts'[id].status # posts[id].status) =>
                \/ /\ posts'[id].status = "scheduled"
                   /\ \E hasId \in BOOLEAN, c \in Captions, t \in Datetimes :
                         SchedulePost(id, hasId, posts'[id].video_path, c, t)
                \/ /\ posts'[id].status \in {"completed", "failed"}
                   /\ \E w \in DOMAIN execs : execs[w].job_id = id /\ Listener(w)]_vars

\* An entry completed by one execution and then failed by another execution
\* of its id, which schedule_post had registered again.
C10_Witness ==
    /\ PostId(1) \in DOMAIN posts
    /\ posts[PostId(1)].status = "failed"
    /\ posts[PostId(1)].media_id \in MediaIds

(***************************************************************************)
(* The recurring schedule.                                                 *)
(***************************************************************************)
RecurringJobs(j) == {k \in DOMAIN j : StartsWithRecurring(k)}
Recurring(st) == [jobs |-> st.jobs, config |-> st.config, files |-> st.files]

\* C4: cancel_recurring twice leaves the job store, the recurring config and
\* the video files as cancel_recurring once does, neither call raises, and a
\* call that finds no schedule changes nothing.
C4_CancelIdempotent ==
    LET once == cancel_recurring_posts(Facade)
        twice == cancel_recurring_posts(once)
    IN  /\ once.ret = "None" /\ twice.ret = "None"
        /\ twice = once
        /\ RecurringJobs(once.jobs) = {} /\ ~once.config.present
        /\ (RecurringJobs(jobs) = {} /\ ~recurringConfig.present) =>
               Recurring(once) = Recurring(Facade) /\ once.posts = posts

\* cancel_recurring has torn down a schedule one of whose jobs is executing.
C4_Witness ==
    /\ ret = "None"
    /\ ~recurringConfig.present
    /\ RecurringJobs(jobs) = {}
    /\ InFlight(RecurringId(1))

\* C5: after schedule_recurring(caption, times, video) with a video, reading
\* the recurring config gives the caption, the set of times and the video of
\* the call, whatever schedule there was before.
C5_RecurringRoundTrip ==
    \A c \in Captions, times \in TimeLists \ {<<>>}, v \in RecurringVideos :
        LET config == get_recurring_schedule(schedule_recurring_post(Facade, c, times, v))
        IN  /\ config.present
            /\ config.caption = c
            /\ config.video_path = v
            /\ Len(config.times) = Len(times)
            /\ {TimeFromIso(config.times[i]) : i \in 1..Len(config.times)}
                  = {times[i] : i \in 1..Len(times)}

\* A schedule of MaxSlots times that replaced one with another caption, a job of
\* which is still executing.
C5_Witness ==
    /\ recurringConfig.present
    /\ Len(recurringConfig.times) = MaxSlots
    /\ \E w \in DOMAIN execs :
          /\ StartsWithRecurring(execs[w].job_id)
          /\ execs[w].args.caption # recurringConfig.caption

\* C6: the daily jobs of the job store are recurring_0 .. recurring_{N-1} at
\* the N times of the schedule in force, the one the latest accepted
\* schedule_recurring call wrote, and there is none when there is no schedule.
C6_NoOrphanedDailyJobs ==
    LET times == recurringConfig.times
    IN  /\ RecurringJobs(jobs) = {RecurringId(i - 1) : i \in 1..Len(times)}
        /\ \A i \in 1..Len(times) :
              /\ jobs[RecurringId(i - 1)].trigger = CronTrigger(TimeFromIso(times[i]))
              /\ jobs[RecurringId(i - 1)].args.caption = recurringConfig.caption
              /\ jobs[RecurringId(i - 1)].args.video_path = recurringConfig.video_path
        /\ ~recurringConfig.present => Len(times) = 0

\* A schedule of one time that replaced a schedule of MaxSlots: the last job of
\* the old one is still executing, and recurring_0 is the only daily job.
C6_Witness ==
    /\ recurringConfig.present
    /\ Len(recurringConfig.times) = 1
    /\ RecurringJobs(jobs) = {RecurringId(0)}
    /\ InFlight(RecurringId(MaxSlots - 1))

(***************************************************************************)
(* The publish workflow.                                                   *)
(***************************************************************************)
Rejections == {"ERROR", "EXPIRED"}
Rejected(w) == w \in DOMAIN execs /\ execs[w].last_status \in Rejections

\* C8: an execution whose poll answered ERROR or EXPIRED has ended with the
\* error that names that status and has not called publish; it polls and
\* publishes no more, and when its event is delivered the ledger entry of the
\* post, if there still is one, becomes "failed" with that error and the job
\* store gets no job.
C8_RemoteRejectionFails ==
    /\ [](\A w \in Workers : Rejected(w) =>
            /\ execs[w].pc = "event"
            /\ execs[w].result = Failed(ErrProcessing(execs[w].last_status))
            /\ execs[w].result.error[2] = execs[w].last_status
            /\ execs[w].publish_calls = 0)
    /\ [][\A w \in Workers : Rejected(w) =>
            IF w \in DOMAIN execs'
            THEN execs'[w] = execs[w]
            ELSE /\ jobs' = jobs
                 /\ DOMAIN posts' = DOMAIN posts
                 /\ execs[w].job_id \in DOMAIN posts =>
                       /\ posts'[execs[w].job_id].status = "failed"
                       /\ posts'[execs[w].job_id].error[2] = execs[w].last_status
                       /\ postsFile' = posts']_vars

\* The ledger entry of a post whose first poll answered EXPIRED: "failed",
\* the error names EXPIRED, and no job of the post is in the job store.
C8_Witness ==
    /\ PostId(1) \in DOMAIN posts
    /\ posts[PostId(1)].status = "failed"
    /\ posts[PostId(1)].error = ErrProcessing("EXPIRED")
    /\ PostId(1) \notin DOMAIN jobs
    /\ execs = <<>>

\* C9: an execution all of whose max_retries polls were answered with a status
\* other than FINISHED, ERROR and EXPIRED has ended with the timeout error,
\* which is not the error of a rejection, and has not called publish; the
\* timeout error comes after max_retries polls and not before.
C9_PollBudgetTimeout ==
    /\ \A s \in StatusCodes : ErrTimeout # ErrProcessing(s)
    /\ \A w \in DOMAIN execs :
          LET e == execs[w]
              pending == e.last_status \in StatusCodes \ ({"FINISHED"} \cup Rejections)
          IN  /\ e.polls <= max_retries
              /\ (e.polls = max_retries /\ pending) =>
                    /\ e.pc = "event"
                    /\ e.result = Failed(ErrTimeout)
                    /\ e.publish_calls = 0
              /\ (e.polls < max_retries /\ pending) => e.pc = "poll"
              /\ e.result = Failed(ErrTimeout) => e.polls = max_retries /\ pending

\* The twelfth poll answered API_ERROR, and the execution ended with the
\* timeout error.
C9_Witness ==
    \E w \in DOMAIN execs :
        /\ execs[w].polls = max_retries
        /\ execs[w].last_status = "API_ERROR"
        /\ execs[w].result = Failed(ErrTimeout)
        /\ execs[w].publish_calls = 0

(***************************************************************************)
(* Job store and ledger under edits.                                       *)
(***************************************************************************)
OneShotJobs(j) == {k \in DOMAIN j : ~StartsWithRecurring(k)}

\* C11: every one-shot job of the job store has a ledger entry under its id
\* whose scheduled_time is the run date of the job's trigger; and an
\* update_post(id, c, t) that returns True leaves the trigger at t, the
\* entry's scheduled_time at t and its caption at c.
C11_StoreLedgerConsistent ==
    /\ \A id \in OneShotJobs(jobs) :
          /\ id \in DOMAIN posts
          /\ jobs[id].trigger = DateTrigger(DatetimeFromIso(posts[id].scheduled_time))
    /\ \A id \in PostIds, c \in Captions, t \in Datetimes :
          LET st == update_scheduled_post(Facade, id, c, t)
          IN  st.ret = "True" =>
                /\ st.jobs[id].trigger = DateTrigger(t)
                /\ DatetimeFromIso(st.posts[id].scheduled_time) = t
                /\ st.posts[id].caption = c
                /\ st.postsFile = st.posts

\* update_post has moved a post from time 0 to a later time with another
\* caption than the job's payload has.
C11_Witness ==
    /\ ret = "True"
    /\ PostId(1) \in DOMAIN jobs
    /\ PostId(1) \in DOMAIN posts
    /\ jobs[PostId(1)].trigger = DateTrigger(MaxNow)
    /\ jobs[PostId(1)].next_run_time = DateTrigger(0)
    /\ posts[PostId(1)].caption # jobs[PostId(1)].args.caption

(***************************************************************************)
(* The exposure: the temporary server on port 8000 and the tunnel.         *)
(***************************************************************************)
\* The execution w is inside post_reel's try block, where it holds the
\* server and the tunnel it started.
Exposing(w) == w \in DOMAIN execs /\ execs[w].pc \in {"create", "poll", "publish"}

\* C12: the server and the tunnel of a post_reel call are gone when the call
\* has returned or raised: port 8000 is held only by an execution that is
\* inside post_reel, on every exit path, a failure of the exposure setup
\* after the server was started included.
C12_ExposureTornDown == port = 0 \/ Exposing(port)

(***************************************************************************)
(* Restarts of the process.                                                *)
(***************************************************************************)
\* C13: a one-shot post that is scheduled and whose job has not fired comes
\* through a restart as it was: after initialization the job store holds its
\* job with the same trigger, fire time and payload, and the ledger holds
\* its entry with status "scheduled" and the same caption, video reference
\* and scheduled_time.
C13_RestartKeepsPost ==
    \A id \in PostIds :
        (id \in DOMAIN jobs /\ id \in DOMAIN posts /\ posts[id].status = "scheduled") =>
            LET st == initialize(Facade)
            IN  /\ id \in DOMAIN st.jobs
                /\ st.jobs[id] = jobs[id]
                /\ id \in DOMAIN st.posts
                /\ st.posts[id] = posts[id]
                /\ st.posts[id].status = "scheduled"

\* The state a restart left: a post that update_post had edited is still
\* scheduled, with its job.
C13_Witness ==
    /\ ret = "init"
    /\ PostId(1) \in DOMAIN jobs
    /\ PostId(1) \in DOMAIN posts
    /\ posts[PostId(1)].status = "scheduled"
    /\ posts[PostId(1)].caption = "bye"
    /\ jobs[PostId(1)].trigger = DateTrigger(MaxNow)

\* C14: initialization over a persisted recurring config of N times leaves
\* the daily jobs recurring_0 .. recurring_{N-1} at those times and nothing
\* else named recurring_, and the config with the same caption, times and
\* video reference; a second initialization leaves what the first left.
C14_StartupReconciliation ==
    recurringConfig.present =>
        LET first == initialize(Facade)
            second == initialize(first)
            times == recurringConfig.times
        IN  /\ first.config = recurringConfig
            /\ RecurringJobs(first.jobs) = {RecurringId(i - 1) : i \in 1..Len(times)}
            /\ \A i \in 1..Len(times) :
                  /\ first.jobs[RecurringId(i - 1)].trigger = CronTrigger(TimeFromIso(times[i]))
                  /\ first.jobs[RecurringId(i - 1)].args.caption = recurringConfig.caption
                  /\ first.jobs[RecurringId(i - 1)].args.video_path = recurringConfig.video_path
            /\ OneShotJobs(first.jobs) = OneShotJobs(jobs)
            /\ second.jobs = first.jobs
            /\ second.config = first.config

\* The state a restart left of a schedule of MaxSlots times.
C14_Witness ==
    /\ ret = "init"
    /\ recurringConfig.present
    /\ Len(recurringConfig.times) = MaxSlots
    /\ Cardinality(RecurringJobs(jobs)) = MaxSlots

\* C15: while a recurring schedule whose video exists is in force, neither a
\* step of an execution nor a restart of the process deletes the video, and
\* afterwards the video reference of every daily job names a file that exists.
C15_RecurringVideoKept ==
    [][(/\ recurringConfig.present
        /\ recurringConfig.video_path \in files
        /\ Restart \/ \E w \in Workers : Worker(w, QuickRemote)) =>
           /\ recurringConfig.video_path \in files'
           /\ \A id \in RecurringJobs(jobs') : jobs'[id].args.video_path \in files']_vars

(***************************************************************************)
(* Pause and resume.                                                       *)
(***************************************************************************)
Registrations == <<jobs, posts, postsFile, recurringConfig, files, execs>>

\* C16: pause() and resume() leave the jobs (ids, triggers, payloads), the
\* ledger and the recurring config as they are; pause() leaves the scheduler
\* paused and resume() running, so a pause of a paused scheduler and a resume
\* of a running one change nothing.
C16_PauseResumeFrame ==
    [][/\ pause_scheduler => (UNCHANGED Registrations /\ paused')
       /\ resume_scheduler => (UNCHANGED Registrations /\ ~paused')
       /\ (pause_scheduler /\ paused) => UNCHANGED <<schedulers, Registrations, paused>>
       /\ (resume_scheduler /\ ~paused) => UNCHANGED <<schedulers, Registrations, paused>>]_vars

\* A paused scheduler that holds a one-shot job, its ledger entry and a
\* daily job with its config.
C16_Witness ==
    /\ paused
    /\ PostId(1) \in DOMAIN jobs
    /\ PostId(1) \in DOMAIN posts
    /\ RecurringId(0) \in DOMAIN jobs
    /\ recurringConfig.present

\* The executions that start in this step.
Started == {w \in DOMAIN execs' : w \notin DOMAIN execs}

\* C17: while the scheduler is paused no execution starts, of a one-shot job
\* or of a daily job; an execution starts in a step of a running scheduler,
\* of a job whose fire time is not further back than the grace time.
C17_NoStartWhilePaused ==
    [][/\ paused => Started = {}
       /\ \A w \in Started :
             /\ ~paused
             /\ execs'[w].job_id \in DOMAIN jobs
             /\ Due(jobs[execs'[w].job_id])
             /\ ~Missed(jobs[execs'[w].job_id])]_vars

\* A paused scheduler holds a one-shot job and a daily job that are due.
C17_Witness ==
    /\ paused
    /\ now = MaxNow
    /\ PostId(1) \in DOMAIN jobs
    /\ Due(jobs[PostId(1)])
    /\ RecurringId(0) \in DOMAIN jobs
    /\ execs = <<>>

(***************************************************************************)
(* Threads.                                                                *)
(***************************************************************************)
\* C18: the listener of an execution whose ledger entry delete_post has
\* removed does nothing: it does not raise, and an id that is not in the
\* ledger does not come into it by a step of a listener.
C18_ListenerToleratesDelete ==
    /\ [](\A w \in DOMAIN execs : execs[w].pc # "l_raised")
    /\ [][\A id \in ParallelIds :
            (id \notin DOMAIN posts /\ id \in DOMAIN posts') => execs' = execs]_vars

\* The listener of w is between its test of the ledger and the end of its
\* write of posts.json.
InLedgerUpdate(w) == w \in DOMAIN execs /\ execs[w].pc \in {"l_write", "l_save", "l_dump"}

\* C19: the updates of the ledger are serialized: at most one listener is
\* inside its update at a time, and when none is, posts.json is well-formed
\* and holds what the ledger holds, the updates of every finished listener.
C19_LedgerWritesSerialized ==
    /\ Cardinality({w \in Threads : InLedgerUpdate(w)}) <= 1
    /\ (\A w \in Threads : ~InLedgerUpdate(w)) => postsFile = posts

\* C20: executions of different posts do not depend on each other: with a
\* tunnel service that accepts every request, an execution beside which only
\* executions of other posts are running gets its exposure and goes on to
\* create its container.
C20_ParallelIndependent ==
    [][\A w \in Threads :
          (/\ TaskStart(w, TRUE)
           /\ \A v \in DOMAIN execs \ {w} : execs[v].job_id # execs[w].job_id) =>
              execs'[w].pc = "create"]_vars


(***************************************************************************)
(* A ledger file that cannot be written.                                   *)
(***************************************************************************)
\* _save_posts while posts.json cannot be opened for writing: open raises,
\* the except clause logs the error and returns, and the caller goes on as
\* after a successful save.  `after` is the state the call leaves when the
\* write goes through; the file keeps the content it has.
save_posts_fails(st, after) == [after EXCEPT !.postsFile = st.postsFile]

SchedulePostUnsaved(id, hasId, video, caption, t) ==
    /\ (~hasId) => FreshId(id)
    /\ Call(save_posts_fails(Facade, schedule_post(Facade, id, hasId, video, caption, t)))

UpdatePostUnsaved(id, caption, t) ==
    Call(save_posts_fails(Facade, update_scheduled_post(Facade, id, caption, t)))

DeletePostUnsaved(id) ==
    Call(save_posts_fails(Facade, delete_scheduled_post(Facade, id)))

\* One post on a disk whose writes fail now and then.
NextDisk ==
    \/ UploadVideo(Video(1))
    \/ \E c \in Captions, t \in Datetimes : SchedulePost(PostId(1), TRUE, Video(1), c, t)
    \/ \E c \in Captions, t \in Datetimes : UpdatePost(PostId(1), c, t)
    \/ DeletePost(PostId(1))
    \/ \E c \in Captions, t \in Datetimes : SchedulePostUnsaved(PostId(1), TRUE, Video(1), c, t)
    \/ \E c \in Captions, t \in Datetimes : UpdatePostUnsaved(PostId(1), c, t)
    \/ DeletePostUnsaved(PostId(1))
    \/ Fire(PostId(1))
    \/ \E w \in Workers : Worker(w, PromptRemote)
    \/ Restart

SpecDisk == Init /\ [][NextDisk]_vars

\* C21: whenever schedule_post, update_post or delete_post reports success
\* (returns the id or True), the persisted ledger document equals the
\* in-memory ledger, also when the write of the document fails.
C21_StorageErrorsSurfaced ==
    \A c \in Captions, t \in Datetimes :
        /\ LET st == save_posts_fails(Facade,
                        schedule_post(Facade, PostId(1), TRUE, Video(1), c, t))
           IN  st.ret = "id" => st.postsFile = st.posts
        /\ LET st == save_posts_fails(Facade,
                        update_scheduled_post(Facade, PostId(1), c, t))
           IN  st.ret = "True" => st.postsFile = st.posts
        /\ LET st == save_posts_fails(Facade, delete_scheduled_post(Facade, PostId(1)))
           IN  st.ret = "True" => st.postsFile = st.posts


\* C22: a one-shot job executes at most once.  An execution of a post id
\* starts only from a job registered under that id, and the step that starts
\* it takes the job out of the job store; a job comes into the job store
\* under a post id by a call of schedule_post only, so no listener and no
\* failure registers the id again.
C22_OneShotAtMostOnce ==
    [][\A id \in PostIds :
          /\ (\E w \in Started : execs'[w].job_id = id)
                => (id \in DOMAIN jobs /\ id \notin DOMAIN jobs')
          /\ (id \notin DOMAIN jobs /\ id \in DOMAIN jobs')
                => \E hasId \in BOOLEAN, v \in PostVideos, c \in Captions, t \in Datetimes :
                       SchedulePost(id, hasId, v, c, t)]_vars

\* A post has failed, its execution is over, and later on there is neither
\* a job nor an execution of its id.
C22_Witness ==
    \E id \in DOMAIN posts :
        /\ posts[id].status = "failed"
        /\ id \notin DOMAIN jobs
        /\ execs = <<>>
        /\ now = MaxNow


\* Pause, resume and restart while the clock runs past the grace time.
NextLate ==
    \/ NextPause
    \/ Restart

SpecLate == Init /\ [][NextLate]_vars

C24_EditsRevalidateFuturity ==
    \A id \in PostIds, c \in Captions, t \in Datetimes :
        t < now =>
            LET st == update_scheduled_post(Facade, id, c, t)
            IN  /\ st.ret = "False"
                /\ st.jobs = jobs
                /\ st.posts = posts
                /\ st.postsFile = postsFile


(***************************************************************************)
(* schedule_recurring_post and cancel_recurring_posts cut short.           *)
(***************************************************************************)
\* schedule_recurring_post that ends after the k-th add_job of its loop, by
\* an exception or by the end of the process: the old schedule is cancelled,
\* k jobs are registered and the config file is not written.  With
\* k = Len(times) this is the open() or the json.dump of the config raising.
schedule_recurring_post_cut(st, caption, times, video_path, k) ==
    LET cancelled == cancel_recurring_posts(st)
        post_data == [id |-> NoId, video_path |-> video_path, caption |-> caption]
    IN  [cancelled EXCEPT
            !.jobs = AddRecurringJobs(cancelled.jobs, SubSeq(times, 1, k), 1, post_data),
            !.ret = "Exception"]

\* cancel_recurring_posts that ends after the video was deleted and the jobs
\* `removed` were removed, the config file still in place.
cancel_recurring_posts_cut(st, removed) ==
    LET recurring_config == get_recurring_schedule(st)
    IN  [st EXCEPT
            !.files = IF recurring_config.present
                      THEN delete_video_file(st.files, recurring_config.video_path)
                      ELSE st.files,
            !.jobs = [k \in DOMAIN st.jobs \ removed |-> st.jobs[k]],
            !.ret = "Exception"]

ScheduleRecurringCut(caption, times, video, k) ==
    /\ video # NoVideo
    /\ k \in 0..Len(times)
    /\ Call(schedule_recurring_post_cut(Facade, caption, times, video, k))

CancelRecurringCut(removed) ==
    /\ removed \subseteq RecurringJobs(jobs)
    /\ Call(cancel_recurring_posts_cut(Facade, removed))

\* The recurring schedule with calls that are cut short, and restarts.
NextCut ==
    \/ \E v \in RecurringVideos : UploadVideo(v)
    \/ \E c \in Captions, times \in TimeLists, v \in RecurringVideos :
          ScheduleRecurring(c, times, v)
    \/ CancelRecurring
    \/ \E times \in [1..MaxSlots -> TimesOfDay], v \in RecurringVideos, k \in 0..MaxSlots :
          ScheduleRecurringCut("bye", times, v, k)
    \/ \E removed \in SUBSET RecurringIds : CancelRecurringCut(removed)
    \/ \E id \in RecurringIds : Fire(id)
    \/ \E w \in Workers : Worker(w, QuickRemote)
    \/ Restart

SpecCut == Init /\ [][NextCut]_vars

\* C25: in every state, also the one a cut-short schedule_recurring or
\* cancel_recurring leaves, jobs named recurring_* are registered only if a
\* recurring config is persisted, and each of them carries the video and
\* the caption of that config.
C25_SingleRecurringAtomic ==
    RecurringJobs(jobs) # {} =>
        /\ recurringConfig.present
        /\ \A id \in RecurringJobs(jobs) :
              /\ jobs[id].args.video_path = recurringConfig.video_path
              /\ jobs[id].args.caption = recurringConfig.caption


(***************************************************************************)
(* The publish workflow.                                                   *)
(***************************************************************************)
\* C26: within one post_reel call the steps come in the order expose,
\* create container, poll, publish.  The container is created at most once
\* and only while the video is exposed; every poll asks for the container
\* that creation returned; publish is called at most once, with that
\* container, and only as the next step after a poll of it answered FINISHED.
C26_WorkflowOrder ==
    [][\A w \in DOMAIN execs \cap DOMAIN execs' :
          LET e == execs[w]
              f == execs'[w]
          IN  /\ f.pc = "create" => e.pc \in {"task", "create"}
              /\ f.pc = "poll" => e.pc \in {"create", "poll"}
              /\ f.pc = "publish" => e.pc \in {"poll", "publish"}
              /\ f.create_calls > e.create_calls =>
                    /\ e.create_calls = 0 /\ f.create_calls = 1
                    /\ e.pc = "create" /\ port = w
                    /\ e.polls = 0 /\ e.publish_calls = 0
              /\ f.polls > e.polls =>
                    /\ e.pc = "poll" /\ e.create_calls = 1
                    /\ e.container_id \in ContainerIds
                    /\ f.polled_id = e.container_id
                    /\ e.publish_calls = 0
              /\ (e.pc = "poll" /\ f.pc = "publish") =>
                    (f.polls = e.polls + 1 /\ f.last_status = "FINISHED")
              /\ f.publish_calls > e.publish_calls =>
                    /\ e.publish_calls = 0 /\ f.publish_calls = 1
                    /\ e.pc = "publish" /\ port = w
                    /\ e.last_status = "FINISHED"
                    /\ e.polled_id = e.container_id
                    /\ e.container_id \in ContainerIds
                    /\ f.creation_id = e.container_id
                    /\ f.pc = "event"]_vars

\* A post_reel call has published the container "c2" after two polls.
C26_Witness ==
    \E w \in DOMAIN execs :
        /\ execs[w].pc = "event"
        /\ execs[w].result.success
        /\ execs[w].create_calls = 1
        /\ execs[w].polls = 2
        /\ execs[w].publish_calls = 1
        /\ execs[w].creation_id = "c2"


\* One post_reel call has returned or raised.
Ended(w) == w \in DOMAIN execs /\ execs[w].pc = "event"

\* The worker thread of an execution keeps running, and every request to
\* the remote service is answered.
SpecReelLive == SpecReel /\ \A w \in Workers : WF_vars(Worker(w, AnyRemote))

\* C27: whatever the remote service answers, one post_reel call polls the
\* status at most max_retries (12) times, is out of the polling loop once
\* the 12th answer is in, and ends with a result.
C27_BoundedPolling ==
    /\ [](\A w \in DOMAIN execs :
             /\ execs[w].polls <= max_retries
             /\ execs[w].polls = max_retries => execs[w].pc \in {"publish", "event"}
             /\ Ended(w) => (execs[w].result.success \/ execs[w].result.error # NoError))
    /\ \A w \in Workers :
          (w \in DOMAIN execs /\ execs[w].pc = "poll") ~> Ended(w)

\* The 12th poll answered FINISHED and the call has ended with success.
C27_Witness ==
    \E w \in DOMAIN execs :
        /\ Ended(w)
        /\ execs[w].polls = max_retries
        /\ execs[w].result.success


\* The remote service has rejected the container creation of execution w.
CreationRejected(w) ==
    /\ w \in DOMAIN execs
    /\ execs[w].create_calls > 0
    /\ execs[w].container_id = NoContainer

\* C28: an execution whose container creation was rejected has ended with
\* the creation error after one creation request, no poll and no publish
\* call; it does nothing more, and when its event is delivered the ledger
\* entry of the post, if there still is one, becomes "failed" with that error.
C28_CreationRejectionFails ==
    /\ [](\A w \in Workers : CreationRejected(w) =>
            /\ execs[w].pc = "event"
            /\ execs[w].result = Failed(ErrContainer)
            /\ execs[w].create_calls = 1
            /\ execs[w].polls = 0
            /\ execs[w].publish_calls = 0)
    /\ [][\A w \in Workers : CreationRejected(w) =>
            IF w \in DOMAIN execs'
            THEN execs'[w] = execs[w]
            ELSE /\ jobs' = jobs
                 /\ DOMAIN posts' = DOMAIN posts
                 /\ execs[w].job_id \in DOMAIN posts =>
                       /\ posts'[execs[w].job_id].status = "failed"
                       /\ posts'[execs[w].job_id].error = ErrContainer
                       /\ postsFile' = posts']_vars

\* The ledger entry of a post whose container creation was rejected.
C28_Witness ==
    /\ PostId(1) \in DOMAIN posts
    /\ posts[PostId(1)].status = "failed"
    /\ posts[PostId(1)].error = ErrContainer
    /\ postsFile = posts
    /\ execs = <<>>


(***************************************************************************)
(* The video file of a post.                                               *)
(***************************************************************************)
\* C29: when an execution of a one-shot post succeeds, whether the post was
\* scheduled with an id or got one from schedule_post, the video file of the
\* post is deleted, and the delivery of the event keeps the ledger entry and
\* sets it to "completed".
C29_SuccessDeletesVideo ==
    [][\A w \in DOMAIN execs : execs[w].job_id \in PostIds =>
          /\ (w \in DOMAIN execs' /\ execs'[w].result.success /\ ~execs[w].result.success)
                => execs[w].args.video_path \notin files'
          /\ (w \notin DOMAIN execs' /\ execs[w].result.success
                /\ execs[w].job_id \in DOMAIN posts)
                => /\ execs[w].job_id \in DOMAIN posts'
                   /\ posts'[execs[w].job_id].status = "completed"]_vars


\* The errors execute_post_task raises.
TaskErrors ==
    {ErrMissingVideo, ErrNgrok, ErrContainer, ErrTimeout, ErrPublish}
        \cup {ErrProcessing(s) : s \in Rejections}

\* C30: the step in which an execution ends in failure, on any failure path,
\* deletes no file, so the video of the post is on disk afterwards if it was
\* before; the failed execution does nothing more, and the delivery of its
\* event deletes no file either and sets the ledger entry of the post, if
\* there still is one, to "failed" with the error of the execution.
C30_FailureKeepsVideo ==
    [][\A w \in DOMAIN execs :
          /\ (w \in DOMAIN execs' /\ execs[w].pc # "event" /\ execs'[w].pc = "event"
                /\ ~execs'[w].result.success)
                => /\ files' = files
                   /\ execs'[w].result.error \in TaskErrors
          /\ (execs[w].pc = "event" /\ ~execs[w].result.success) =>
                IF w \in DOMAIN execs'
                THEN execs'[w] = execs[w]
                ELSE /\ files' = files
                     /\ DOMAIN posts' = DOMAIN posts
                     /\ execs[w].job_id \in DOMAIN posts =>
                           /\ posts'[execs[w].job_id].status = "failed"
                           /\ posts'[execs[w].job_id].error = execs[w].result.error]_vars

\* The publish call of a post failed: the entry is "failed" with the publish
\* error and the video is still on disk.
C30_Witness ==
    /\ PostId(1) \in DOMAIN posts
    /\ posts[PostId(1)].status = "failed"
    /\ posts[PostId(1)].error = ErrPublish
    /\ posts[PostId(1)].video_path \in files
    /\ execs = <<>>


(***************************************************************************)
(* Rejected calls.                                                         *)
(***************************************************************************)
\* C31: an update_post call that returns False leaves the job store as it
\* was, and update_post never changes the trigger of a daily job recurring_i.
C31_FailedUpdateKeepsStore ==
    \A id \in PostIds \cup RecurringIds, c \in Captions, t \in Datetimes :
        LET st == update_scheduled_post(Facade, id, c, t)
        IN  /\ st.ret = "False" => st.jobs = jobs
            /\ StartsWithRecurring(id) => st.jobs = jobs


\* C32: schedule_recurring without a video reference is rejected and leaves
\* the daily jobs, the recurring config and the video files as they were.
C32_RejectedRecurringChangesNothing ==
    \A c \in Captions, times \in TimeLists :
        LET st == schedule_recurring_post(Facade, c, times, NoVideo)
        IN  /\ st.ret = "ValueError"
            /\ Recurring(st) = Recurring(Facade)


\* C33: no two registered daily jobs fire at the same hour and minute, and
\* the persisted recurring config lists each time of the day once.
C33_UniqueRecurringTimes ==
    /\ \A a, b \in RecurringJobs(jobs) :
          (a # b /\ jobs[a].trigger.kind = "cron" /\ jobs[b].trigger.kind = "cron") =>
              <<jobs[a].trigger.hour, jobs[a].trigger.minute>>
                  # <<jobs[b].trigger.hour, jobs[b].trigger.minute>>
    /\ \A i, j \in DOMAIN recurringConfig.times :
          i # j => recurringConfig.times[i] # recurringConfig.times[j]


(***************************************************************************)
(* The ledger and the job store of an edited post.                         *)
(***************************************************************************)
\* C34: the record of every ledger entry carries in its id field the key it
\* is stored under, which is the id of the job registered for the post, in
\* memory and in the ledger file, also for a post that got its id from
\* schedule_post.
C34_IdentityInvariant ==
    /\ \A k \in DOMAIN posts : posts[k].id = k
    /\ \A k \in DOMAIN postsFile : postsFile[k].id = k


\* C35: after update_post(id, c, t) returned True, the job store's next fire
\* time of the job is t, the time the ledger shows, so that the execution
\* of the job happens at t.
C35_UpdateMovesFireTime ==
    \A id \in PostIds, c \in Captions, t \in Datetimes :
        LET st == update_scheduled_post(Facade, id, c, t)
        IN  st.ret = "True" =>
                /\ DatetimeFromIso(st.posts[id].scheduled_time) = t
                /\ st.jobs[id].next_run_time.kind = "date"
                /\ st.jobs[id].next_run_time.run_date = t


\* C36: when the job of a one-shot post starts to execute, the caption in
\* the payload handed to the publish workflow is the caption of the ledger
\* entry of the post.
C36_PublishedCaptionIsLedgerCaption ==
    [][\A w \in Started :
          (execs'[w].job_id \in PostIds /\ execs'[w].job_id \in DOMAIN posts) =>
              execs'[w].args.caption = posts[execs'[w].job_id].caption]_vars


(***************************************************************************)
(* Posts without a job.                                                    *)
(***************************************************************************)
\* C37: every ledger entry with status "scheduled" has a job registered
\* under its id or an execution of that job in flight.
C37_NoStrandedPosts ==
    \A k \in DOMAIN posts :
        posts[k].status = "scheduled" => (k \in DOMAIN jobs \/ InFlight(k))


(***************************************************************************)
(* The status of the scheduler.                                            *)
(***************************************************************************)
\* BaseScheduler.state of the scheduler the facade started: start() is called
\* in __init__ and shutdown() nowhere, so it is never STATE_STOPPED.
SchedulerState == IF paused THEN "STATE_PAUSED" ELSE "STATE_RUNNING"

\* BaseScheduler.running: the state is not STATE_STOPPED.
running == SchedulerState # "STATE_STOPPED"

\* ReelScheduler.get_scheduler_status
get_scheduler_status ==
    [running |-> running,
     total_jobs |-> Cardinality(DOMAIN jobs),
     total_posts |-> Cardinality(DOMAIN posts)]

\* C38: status().running is false from pause() to the next resume() and
\* true after resume().
C38_StatusReflectsPause == get_scheduler_status.running = ~paused


(***************************************************************************)
(* More than one scheduler instance.                                       *)
(***************************************************************************)
\* render_settings_form deletes st.session_state.scheduler after a saved
\* configuration, and another browser session starts with none: in both
\* cases initialize_components constructs a new ReelScheduler in the same
\* process.  Nothing calls shutdown() on the instance that was there, whose
\* scheduler thread goes on over the same job store; the executions go on
\* too.  The new instance loads the ledger and reconciles the recurring
\* schedule; it is not paused.
RecreateScheduler ==
    /\ schedulers < MaxSchedulers
    /\ schedulers' = schedulers + 1
    /\ LET st == initialize(Facade)
       IN  /\ jobs' = st.jobs
           /\ posts' = st.posts
           /\ postsFile' = st.postsFile
           /\ recurringConfig' = st.config
           /\ files' = st.files
           /\ ret' = st.ret
    /\ paused' = FALSE
    /\ UNCHANGED <<now, execs, port>>

\* An execution record of the job id.
Execution(id) ==
    [job_id |-> id, args |-> jobs[id].args, pc |-> "task",
     polls |-> 0, last_status |-> "", publish_calls |-> 0,
     create_calls |-> 0, container_id |-> NoContainer,
     polled_id |-> NoContainer, creation_id |-> NoContainer,
     result |-> NoResult]

\* _process_jobs of two instances at the fire time of a job: each holds its
\* own lock and its own worker pool, both wake up at the next_run_time of
\* the job and read it from the store with get_due_jobs before either has
\* removed it, and both hand it to their executor.
FireBoth(id, pool) ==
    /\ schedulers > 1
    /\ ~paused
    /\ id \in DOMAIN jobs
    /\ Due(jobs[id])
    /\ ~Missed(jobs[id])
    /\ Cardinality(pool \ DOMAIN execs) > 1
    /\ jobs' = JobsAfterRun(jobs, id)
    /\ LET free == pool \ DOMAIN execs
           w1 == CHOOSE x \in free : \A y \in free : x <= y
           w2 == CHOOSE x \in free \ {w1} : \A y \in free \ {w1} : x <= y
       IN  execs' = [k \in DOMAIN execs \cup {w1, w2} |->
                        IF k \in {w1, w2} THEN Execution(id) ELSE execs[k]]
    /\ UNCHANGED <<schedulers, posts, postsFile, recurringConfig, files, paused, now, port, ret>>

\* One post while the facade is constructed again; the delivery of the
\* events, which goes to the instance whose executor ran the job, is left out.
NextInstances ==
    \/ UploadVideo(Video(1))
    \/ \E c \in Captions, t \in Datetimes : SchedulePost(PostId(1), TRUE, Video(1), c, t)
    \/ DeletePost(PostId(1))
    \/ ScheduleRecurring("hello", <<[hour |-> 9, minute |-> 0]>>, Video(-1))
    \/ RecreateScheduler
    \/ \E id \in PostIds \cup RecurringIds : FireOn(id, Threads)
    \/ \E id \in PostIds \cup RecurringIds : FireBoth(id, Threads)
    \/ \E w \in Threads, tunnel_ok \in BOOLEAN : TaskStart(w, tunnel_ok)
    \/ \E w \in Threads : ReelCreate(w, "c1")
    \/ \E w \in Threads : ReelPoll(w, "FINISHED")
    \/ \E w \in Threads : ReelPublish(w, TRUE, "m1")
    \/ Tick
    \/ Restart

SpecInstances == Init /\ [][NextInstances]_vars

\* C39: at most one started scheduler instance works on the job store at
\* any time, also after the facade was constructed again, and a due job is
\* handed to an executor by one instance only: no step starts more than one
\* execution.
C39_SingleSchedulerInstance ==
    /\ [](schedulers <= 1)
    /\ [][Cardinality(Started) <= 1]_vars
====
